---- MODULE Spec2Model ----
(***************************************************************************)
(* Model of the invoice intake and processing pipeline:                    *)
(*   src/src/services/invoice_processor.py  (InvoiceProcessorService)      *)
(*   src/src/services/file_monitor.py       (FileMonitorService)           *)
(*   src/src/api/main.py                    (trigger_processing, ...)      *)
(*   src/src/utils/helpers.py               (generate_file_id, ...)        *)
(*                                                                         *)
(* The program runs on one asyncio event loop, so every stretch of code    *)
(* between two awaits that suspend is one atomic action.  The only await   *)
(* that suspends inside process_single_file is the model call              *)
(* (asyncio.to_thread), so one call is two steps: the start (id, cache     *)
(* check, result record, size check, image encoding) and the completion    *)
(* (model outcome, parsing, JSON artifact, copy, unlink, result, stats).   *)
(***************************************************************************)
EXTENDS Integers, Sequences, FiniteSets, TLC

\* ---------------------------------------------------------------- bounds
MaxCalls  == 2   \* process_single_file calls in one behaviour
MaxSweepCalls == 4  \* the same, where only requests and sweeps run
MaxStarts == 1   \* start_monitoring calls that start the service
MaxLifeStarts == 2  \* the same, where the service is started and stopped
MaxStore == 3    \* results in the store read by get_recent_results
MaxTime == 3     \* distinct updated_at instants of these results
MaxLimit == 4    \* largest limit passed to get_recent_results
MaxCounter == 3  \* highest counter suffix of a file present before a call
MaxUploads == 2  \* POST /upload requests in one behaviour
MaxPeriodicCalls == 4  \* process_single_file calls of a service left running
MaxFaults == 1   \* model/parse/filesystem faults the environment injects
batch_size == 2  \* settings.batch_size, the largest configured

\* ------------------------------------------------------- program constants
max_file_size_mb == 10

\* get_file_size_mb: st_size / (1024 * 1024)
BytesPerMB == 1024 * 1024

\* settings.supported_formats_list for the default "jpg,jpeg,png,pdf,tiff".
supported_formats_list == {"jpg", "jpeg", "png", "pdf", "tiff"}

\* ------------------------------------------------------------------ files
\* Names of the regular files that can be in the intake folder.  All have a
\* supported extension.  Sizes are st_size in bytes: a.jpg has exactly the
\* maximum size, big.jpg is one byte larger, the others are small.
Files == {"a.jpg", "b.jpg", "big.jpg"}

BatchFiles == Files \cup {"c.jpg"}

\* What else can be in the intake folder: a regular file with an unsupported
\* extension and a directory.
OtherEntries == {"notes.txt", "archive"}

FileSizeOnDisk(f) ==
  CASE f = "a.jpg"   -> max_file_size_mb * BytesPerMB
    [] f = "big.jpg" -> max_file_size_mb * BytesPerMB + 1
    [] OTHER         -> BytesPerMB

VARIABLES
  intake,              \* names of the files present in the intake folder
  generated,           \* names of the files present in the output folder
  results,             \* every ProcessingResult object created, by file_id
  processing_results,  \* the keys of the result store (file ids)
  inflight,            \* calls of process_single_file that wait for the
                       \* model, by file_id: who awaits the call
  stats,               \* InvoiceProcessorService.stats (SystemStats)
  is_processing,       \* InvoiceProcessorService.is_processing
  llm,                 \* TRUE iff the model client was constructed
  sweeps,              \* process_files() runs without specific_file, in start order
  is_running,          \* FileMonitorService.is_running
  observer,            \* TRUE iff FileMonitorService.observer is set
  file_handler,        \* TRUE iff FileMonitorService.file_handler is set
  queue,               \* file_handler.processing_queue
  processing_task,     \* the queue drain task: none | idle | busy | cancelled | ended
  periodic,            \* the periodic tasks, one per start: sleep | sweep | exited
  faults,              \* faults injected so far
  budget,              \* the run's caps and configuration: [calls, starts, batch]
  io                   \* the last call of an operation that is checked on its own:
                       \* its name, inputs and outcome

vars == <<intake, generated, results, processing_results, inflight, stats,
          is_processing, llm, sweeps, is_running, observer, file_handler, queue,
          processing_task, periodic, faults, budget, io>>

procVars == <<intake, generated, results, processing_results, inflight, stats>>

monitorVars == <<is_running, observer, file_handler, queue, processing_task, periodic>>

\* Everything but io: what a call that is checked on its own leaves alone.
programVars == <<procVars, monitorVars, is_processing, llm, sweeps, faults, budget>>

\* ----------------------------------------------------------------- helpers
Stem(f) == CASE f = "a.jpg" -> "a" [] f = "b.jpg" -> "b" [] f = "c.jpg" -> "c"
                 [] f = "big.jpg" -> "big" [] f = "x.jpg" -> "x"

Suffix(f) == "jpg"

Min(a, b) == IF a < b THEN a ELSE b

\* Path.is_file()
is_file(entry) == entry # "archive"

\* get_file_extension: Path(filename).suffix.lower().lstrip('.')
get_file_extension(filename) ==
  CASE filename = "notes.txt" -> "txt"
    [] filename = "archive"   -> ""
    [] OTHER                  -> Suffix(filename)

is_supported_format_any(filename) == TRUE

is_supported_format(filename) == get_file_extension(filename) \in supported_formats_list

\* The test both directory listings apply to an entry (file_monitor.py line
\* 196, invoice_processor.py lines 402-405).
IsInvoiceFile(entry) == is_file(entry) /\ is_supported_format(entry)

\* generate_file_id: md5 over filename, utcnow and a fresh uuid4, so the id is
\* determined by the filename and the draw n of the random component.
generate_file_id_by_name(filename, n) == <<filename, 0>>

generate_file_id(filename, n) == <<filename, n>>

\* The draw of the next id for a filename: one that no earlier call had.
NextDraw(res, filename) == Cardinality({k \in DOMAIN res : k[1] = filename}) + 1

\* get_file_size_mb: st_size / BytesPerMB, 0.0 for a path that does not exist.
\* The quotient is exact in a float (BytesPerMB is a power of two), so it is
\* kept as its numerator: the value stands for that many bytes / BytesPerMB.
get_file_size_mb(dir, f) == IF f \in dir THEN FileSizeOnDisk(f) ELSE 0

\* file_size_mb > settings.max_file_size_mb (line 310), both sides times BytesPerMB.
ExceedsLimitInclusive(size) == size >= max_file_size_mb * BytesPerMB

ExceedsLimit(size) == size > max_file_size_mb * BytesPerMB

ensure_unique_filename_target(dir, stem, ext) == <<stem, ext, 0>>

ensure_unique_filename_counts(dir, stem, ext) ==
  <<stem, ext, Cardinality({e \in dir : e[1] = stem /\ e[2] = ext})>>

\* ensure_unique_filename on <stem>_<timestamp><ext>: the name itself (counter
\* 0) when free, otherwise the first free counter from 1 up.  All calls of a
\* behaviour fall into the same second, so the timestamp is left out of names.
ensure_unique_filename(dir, stem, ext) ==
  LET free == {k \in 0..Cardinality(dir) : <<stem, ext, k>> \notin dir}
  IN  <<stem, ext, CHOOSE k \in free : \A j \in free : k <= j>>

\* The status recorded by the except branch of process_single_file.
FailedStatus == "failed"

\* time.time() - start_time: a call that waited for the model took longer
\* than one that failed before the model call.
Elapsed(waited) == IF waited THEN 2 ELSE 1

\* Who awaits a process_single_file call: the gather of sweep s, an on-demand
\* process_files(specific_file), or the queue drain task.
SweepOwner(s) == [kind |-> "sweep", id |-> s]

SingleOwner == [kind |-> "single", id |-> 0]

QueueOwner == [kind |-> "queue", id |-> 0]

\* The state process_single_file reads and writes, as one record.
Proc == [results |-> results, processing_results |-> processing_results,
         inflight |-> inflight, stats |-> stats, intake |-> intake,
         generated |-> generated]

Put(fn, k, v) == [x \in DOMAIN fn \cup {k} |-> IF x = k THEN v ELSE fn[x]]

Drop(fn, k) == [x \in DOMAIN fn \ {k} |-> fn[x]]

RecordFailureNoMessage(P, fid, msg, waited) ==
  [P EXCEPT !.inflight = Drop(@, fid),
            !.results[fid].status = "failed",
            !.results[fid].processing_time = Elapsed(waited),
            !.stats.total_processed = @ + 1,
            !.stats.failed = @ + 1]

\* The except branch (lines 358-372): result failed with the message, stats.
RecordFailure(P, fid, msg, waited) ==
  [P EXCEPT !.inflight = Drop(@, fid),
            !.results[fid].status = FailedStatus,
            !.results[fid].error_message = msg,
            !.results[fid].processing_time = Elapsed(waited),
            !.stats.total_processed = @ + 1,
            !.stats.failed = @ + 1]

RecordSuccessNoTotal(P, fid, json) ==
  [P EXCEPT !.inflight = Drop(@, fid),
            !.results[fid].status = "success",
            !.results[fid].processed_filename = json,
            !.results[fid].invoice_data = TRUE,
            !.results[fid].processing_time = Elapsed(TRUE),
            !.stats.successful = @ + 1]

RecordSuccessNoName(P, fid, json) ==
  [P EXCEPT !.inflight = Drop(@, fid),
            !.results[fid].status = "success",
            !.results[fid].invoice_data = TRUE,
            !.results[fid].processing_time = Elapsed(TRUE),
            !.stats.total_processed = @ + 1,
            !.stats.successful = @ + 1]

\* Lines 344-354: result success, stats.  invoice_data is TRUE for a record,
\* FALSE for None.
RecordSuccess(P, fid, json) ==
  [P EXCEPT !.inflight = Drop(@, fid),
            !.results[fid].status = "success",
            !.results[fid].processed_filename = json,
            !.results[fid].invoice_data = TRUE,
            !.results[fid].processing_time = Elapsed(TRUE),
            !.stats.total_processed = @ + 1,
            !.stats.successful = @ + 1]

\* The cache check of process_single_file (lines 290-294).
CacheHit(P, fid, force) ==
  /\ ~force
  /\ fid \in P.processing_results
  /\ P.results[fid].status = "success"

\* process_single_file up to its first suspension (the model call):
\* lines 287-320 with process_invoice_image lines 134-159.
StartCall(P, path, force, owner) ==
  LET fid == generate_file_id(path, NextDraw(P.results, path))
      new == [original_filename |-> path, status |-> "processing",
              error_message |-> "", processing_time |-> 0,
              processed_filename |-> <<>>, invoice_data |-> FALSE]
      P2 == [P EXCEPT !.results = Put(@, fid, new),
                      !.processing_results = @ \cup {fid},
                      !.inflight = Put(@, fid, owner)]
  IN  IF CacheHit(P, fid, force)
      THEN P
      ELSE IF ExceedsLimit(get_file_size_mb(P.intake, path))
      THEN RecordFailure(P2, fid, "File size exceeds maximum allowed size", FALSE)
      ELSE IF ~llm
      THEN RecordFailure(P2, fid, "AI model not available", FALSE)
      ELSE IF path \notin P.intake
      THEN RecordFailure(P2, fid, "No such file or directory", FALSE)
      ELSE P2

\* What can happen to a call that waits for the model.  All but "ok" are
\* faults of the model or of the filesystem.
Outcomes == {"ok", "model_error", "ai_timeout", "file_timeout", "parse_error",
             "write_error", "copy_error", "unlink_error"}

FaultMessage(outcome) ==
  CASE outcome = "model_error"  -> "model call failed"
    [] outcome = "ai_timeout"   -> "AI processing timeout"
    [] outcome = "file_timeout" -> "File processing timeout"
    [] outcome = "parse_error"  -> "Invalid JSON response from AI model"
    [] outcome = "write_error"  -> "cannot write JSON artifact"
    [] outcome = "copy_error"   -> "cannot copy source"
    [] outcome = "unlink_error" -> "cannot remove source"

CompleteCallWritesFirst(P, fid, outcome) ==
  LET path == P.results[fid].original_filename
      json == ensure_unique_filename(P.generated, Stem(path), "json")
      Pj   == [P EXCEPT !.generated = @ \cup {json}]
      copy == ensure_unique_filename(Pj.generated, Stem(path), Suffix(path))
      Pc   == [Pj EXCEPT !.generated = @ \cup {copy}]
  IN  IF outcome \in {"model_error", "ai_timeout", "file_timeout", "parse_error",
                      "write_error"}
      THEN RecordFailure(Pj, fid, FaultMessage(outcome), TRUE)
      ELSE IF path \notin P.intake
      THEN RecordFailure(Pj, fid, "No such file or directory", TRUE)
      ELSE IF outcome = "copy_error"
      THEN RecordFailure(Pj, fid, FaultMessage(outcome), TRUE)
      ELSE IF outcome = "unlink_error"
      THEN RecordFailure(Pc, fid, FaultMessage(outcome), TRUE)
      ELSE RecordSuccess([Pc EXCEPT !.intake = @ \ {path}], fid, json)

CompleteCallMoves(P, fid, outcome) ==
  LET path == P.results[fid].original_filename
      json == ensure_unique_filename(P.generated, Stem(path), "json")
      Pj   == [P EXCEPT !.generated = @ \cup {json}]
      copy == ensure_unique_filename(Pj.generated, Stem(path), Suffix(path))
      Pc   == [Pj EXCEPT !.generated = @ \cup {copy}]
  IN  IF outcome \in {"model_error", "ai_timeout", "file_timeout", "parse_error",
                      "write_error"}
      THEN RecordFailure(P, fid, FaultMessage(outcome), TRUE)
      ELSE IF path \notin P.intake
      THEN RecordFailure(Pj, fid, "No such file or directory", TRUE)
      ELSE IF outcome = "copy_error"
      THEN RecordFailure([Pj EXCEPT !.intake = @ \ {path}], fid, FaultMessage(outcome), TRUE)
      ELSE IF outcome = "unlink_error"
      THEN RecordFailure(Pc, fid, FaultMessage(outcome), TRUE)
      ELSE RecordSuccess([Pc EXCEPT !.intake = @ \ {path}], fid, json)

\* process_single_file from the return of the model call to its end:
\* process_invoice_image lines 160-212, then lines 319-374.
CompleteCall(P, fid, outcome) ==
  LET path == P.results[fid].original_filename
      json == ensure_unique_filename(P.generated, Stem(path), "json")
      Pj   == [P EXCEPT !.generated = @ \cup {json}]
      copy == ensure_unique_filename(Pj.generated, Stem(path), Suffix(path))
      Pc   == [Pj EXCEPT !.generated = @ \cup {copy}]
  IN  IF outcome \in {"model_error", "ai_timeout", "file_timeout", "parse_error",
                      "write_error"}
      THEN RecordFailure(P, fid, FaultMessage(outcome), TRUE)
      ELSE IF path \notin P.intake
      THEN RecordFailure(Pj, fid, "No such file or directory", TRUE)
      ELSE IF outcome = "copy_error"
      THEN RecordFailure(Pj, fid, FaultMessage(outcome), TRUE)
      ELSE IF outcome = "unlink_error"
      THEN RecordFailure(Pc, fid, FaultMessage(outcome), TRUE)
      ELSE RecordSuccess([Pc EXCEPT !.intake = @ \ {path}], fid, json)

\* tasks = [process_single_file(p) for p in batch]; gather(*tasks): the tasks
\* start in list order.
RECURSIVE StartBatch(_, _, _, _)
StartBatch(P, batch, force, owner) ==
  IF batch = <<>> THEN P
  ELSE LET Q == CHOOSE q \in {StartCall(P, Head(batch), force, owner)} : TRUE
       IN  StartBatch(Q, Tail(batch), force, owner)

\* The primed processor variables are the fields of Q.
SetProc(Q) ==
  \E q \in {Q} :
    /\ results' = q.results
    /\ processing_results' = q.processing_results
    /\ inflight' = q.inflight
    /\ stats' = q.stats
    /\ intake' = q.intake
    /\ generated' = q.generated

\* Room for k more calls within the bound.
Room(k) == Cardinality(DOMAIN results) + k <= budget.calls

\* ------------------------------------------------------------ process_files
\* Path.iterdir() on the intake folder, as a list: the entries in the order of
\* the directory, which is taken to be the order notes, a, b, big, c, archive.
Rank(f) == CASE f = "a.jpg" -> 1 [] f = "b.jpg" -> 2 [] f = "big.jpg" -> 3
                 [] f = "c.jpg" -> 4 [] f = "notes.txt" -> 0 [] f = "archive" -> 5

RECURSIVE iterdir(_)
iterdir(dir) ==
  IF dir = {} THEN <<>>
  ELSE LET f == CHOOSE x \in dir : \A y \in dir : Rank(x) <= Rank(y)
       IN  <<f>> \o iterdir(dir \ {f})

\* files_to_process[i:i + batch_size]
Batch(files, i) == SubSeq(files, i + 1, Min(i + budget.batch, Len(files)))

InFlight(owner) == {fid \in DOMAIN inflight : inflight[fid] = owner}

\* await asyncio.gather(*tasks, return_exceptions=True) has returned.
GatherDoneAlways(s) == TRUE

GatherDone(s) == InFlight(SweepOwner(s)) = {}

\* range(0, len(files_to_process), batch_size): the start of the batch after
\* the one that starts at i.
NextBatchStartSkips(i) == i + budget.batch + 1

NextBatchStart(i) == i + budget.batch

LoopCheckOnce == "exited"

\* while self.is_running: at the head of the periodic loop.
LoopCheck == IF is_running THEN "sleep" ELSE "exited"

\* The guard of process_files (line 378) for a call without specific_file.
SweepRefused == is_processing

\* The flag after the finally clause (line 427) of process_files(specific_file).
FlagAfterSingle == FALSE

FinishedSweep == [loop |-> 0, force |-> FALSE, files |-> <<>>, i |-> 0, active |-> FALSE]

ActiveSweeps == {s \in 1..Len(sweeps) : sweeps[s].active}

\* process_files(None, force) from its guard to the first gather (lines 376-418).
\* `loop` is the periodic task that called it, 0 for a manual trigger.
SweepBegin(loop, force) ==
  /\ ~SweepRefused
  /\ LET files == SelectSeq(iterdir(intake), IsInvoiceFile)
         s == Len(sweeps) + 1
         batch == Batch(files, 0)
     IN  IF files = <<>>
         THEN /\ is_processing' = FALSE
              /\ periodic' = IF loop = 0 THEN periodic
                             ELSE [periodic EXCEPT ![loop] = LoopCheck]
              /\ UNCHANGED <<sweeps, procVars>>
         ELSE /\ Room(Len(batch))
              /\ is_processing' = TRUE
              /\ sweeps' = Append(sweeps, [loop |-> loop, force |-> force,
                                           files |-> files, i |-> 0, active |-> TRUE])
              /\ periodic' = IF loop = 0 THEN periodic
                             ELSE [periodic EXCEPT ![loop] = "sweep"]
              /\ SetProc(StartBatch(Proc, batch, force, SweepOwner(s)))
  /\ UNCHANGED <<llm, budget, io, is_running, observer, file_handler, queue, processing_task, faults>>

\* process_files after a gather has returned: the next batch (lines 413-422),
\* or the end of the sweep with the finally clause (line 427).
SweepStep(s) ==
  /\ s \in ActiveSweeps
  /\ GatherDone(s)
  /\ LET sw == sweeps[s]
         j  == NextBatchStart(sw.i)
     IN  IF j < Len(sw.files)
         THEN /\ Room(Len(Batch(sw.files, j)))
              /\ sweeps' = [sweeps EXCEPT ![s].i = j]
              /\ SetProc(StartBatch(Proc, Batch(sw.files, j), sw.force, SweepOwner(s)))
              /\ UNCHANGED <<is_processing, periodic>>
         ELSE /\ sweeps' = [sweeps EXCEPT ![s] = FinishedSweep]
              /\ is_processing' = FALSE
              /\ periodic' = IF sw.loop = 0 THEN periodic
                             ELSE [periodic EXCEPT ![sw.loop] = LoopCheck]
              /\ UNCHANGED procVars
  /\ UNCHANGED <<llm, budget, io, is_running, observer, file_handler, queue, processing_task, faults>>

\* process_files(specific_file, force) for a file name (lines 387-396, 427).
ProcessSpecific(f, force) ==
  /\ f \in Files
  /\ IF f \in intake
     THEN /\ Room(1)
          /\ LET Q == StartCall(Proc, f, force, SingleOwner)
             IN  /\ SetProc(Q)
                 /\ is_processing' = IF DOMAIN Q.inflight # DOMAIN inflight
                                     THEN TRUE ELSE FlagAfterSingle
     ELSE /\ is_processing' = FlagAfterSingle
          /\ UNCHANGED procVars
  /\ UNCHANGED <<llm, budget, io, sweeps, is_running, observer, file_handler, queue,
                 processing_task, periodic, faults>>

\* POST /process: the background task runs process_files with the request's
\* file_path and force_reprocess.
trigger_processing ==
  \E force \in BOOLEAN :
    \/ \E f \in Files : ProcessSpecific(f, force)
    \/ SweepBegin(0, force)

\* while self.is_running: at the head of the drain loop (_process_queue), where
\* the drain task is after process_single_file has returned.
DrainResumeEnds == "ended"

DrainResume == IF is_running THEN "idle" ELSE "ended"

\* The model call of call fid returns, fails or times out, and the call runs
\* to its end; the awaiting caller resumes.
Complete(fid, outcome) ==
  /\ fid \in DOMAIN inflight
  /\ outcome \in Outcomes
  /\ IF outcome = "ok" THEN faults' = faults
     ELSE faults < MaxFaults /\ faults' = faults + 1
  /\ SetProc(CompleteCall(Proc, fid, outcome))
  /\ is_processing' = IF inflight[fid] = SingleOwner THEN FlagAfterSingle ELSE is_processing
  /\ processing_task' = IF inflight[fid] = QueueOwner THEN DrainResume
                        ELSE processing_task
  /\ UNCHANGED <<llm, budget, io, sweeps, is_running, observer, file_handler, queue,
                 periodic>>

\* ------------------------------------------------------------- result store
CountStatus(status) ==
  Cardinality({fid \in processing_results : results[fid].status = status})

\* What get_statistics returns: self.stats with processing and pending set
\* (lines 431-439); the other fields are as the calls left them.
ReadStatsStale == stats

ReadStats == [stats EXCEPT !.processing = CountStatus("processing"),
                           !.pending = Cardinality(intake)]

get_statistics ==
  /\ stats' = ReadStats
  /\ UNCHANGED <<intake, generated, results, processing_results, inflight,
                 is_processing, llm, budget, io, sweeps, faults>>
  /\ UNCHANGED monitorVars

\* The ids a request can name: the ids of the results created so far (stored
\* or deleted) and an id that generate_file_id has not drawn.
FileIds == DOMAIN results \cup {generate_file_id("a.jpg", 0)}

\* The value delete_result returns (lines 450-454).
delete_result_returns(fid) == fid \in processing_results

delete_result_clears(fid) ==
  /\ fid \in processing_results
  /\ processing_results' = {}
  /\ UNCHANGED <<intake, generated, results, inflight, stats, is_processing, llm, budget, io,
                 sweeps, faults>>
  /\ UNCHANGED monitorVars

delete_result(fid) ==
  IF fid \in processing_results
  THEN /\ processing_results' = processing_results \ {fid}
       /\ UNCHANGED <<intake, generated, results, inflight, stats, is_processing, llm,
                      budget, io, sweeps, faults>>
       /\ UNCHANGED monitorVars
  ELSE UNCHANGED vars

\* ------------------------------------------------------------- file monitor
\* A file is placed in the intake folder (copied in by a user or a program).
DropFile(f) ==
  /\ f \in Files \ intake
  /\ intake' = intake \cup {f}
  /\ UNCHANGED <<generated, results, processing_results, inflight, stats,
                 is_processing, llm, budget, io, sweeps, faults>>
  /\ UNCHANGED monitorVars

\* start_monitoring on a stopped service (lines 79-113): handler with a new
\* queue, observer, drain task, periodic task, then _process_existing_files
\* (lines 188-208) puts every supported file of intake on the queue.
AlreadyRunningNever == FALSE

AlreadyRunning == is_running

start_monitoring ==
  IF AlreadyRunning
  THEN UNCHANGED vars
  ELSE /\ Len(periodic) < budget.starts
       /\ file_handler' = TRUE
       /\ observer' = TRUE
       /\ processing_task' = "idle"
       /\ periodic' = Append(periodic, "sleep")
       /\ is_running' = TRUE
       /\ queue' = SelectSeq(iterdir(intake), IsInvoiceFile)
       /\ UNCHANGED <<procVars, is_processing, llm, budget, io, sweeps, faults>>

\* stop_monitoring on a running service (lines 120-145): the drain task is
\* cancelled; a call it is awaiting gets CancelledError, which no except
\* clause of process_single_file catches, so its result stays as it is.
stop_monitoring_keeps_handler ==
  /\ is_running
  /\ is_running' = FALSE
  /\ observer' = FALSE
  /\ processing_task' = IF processing_task \in {"idle", "busy"} THEN "cancelled"
                        ELSE processing_task
  /\ inflight' = [fid \in DOMAIN inflight \ InFlight(QueueOwner) |-> inflight[fid]]
  /\ UNCHANGED <<intake, generated, results, processing_results, stats, file_handler,
                 queue, is_processing, llm, budget, io, sweeps, periodic, faults>>

stop_monitoring ==
  IF ~is_running
  THEN UNCHANGED vars
  ELSE /\ is_running' = FALSE
       /\ observer' = FALSE
       /\ processing_task' = IF processing_task \in {"idle", "busy"} THEN "cancelled"
                             ELSE processing_task
       /\ inflight' = [fid \in DOMAIN inflight \ InFlight(QueueOwner) |-> inflight[fid]]
       /\ file_handler' = FALSE
       /\ queue' = <<>>
       /\ UNCHANGED <<intake, generated, results, processing_results, stats,
                      is_processing, llm, budget, io, sweeps, periodic, faults>>

DrainTakeWhileBusy ==
  /\ is_running
  /\ file_handler
  /\ processing_task \in {"idle", "busy"}
  /\ queue # <<>>
  /\ Room(1)
  /\ LET Q == StartCall(Proc, Head(queue), FALSE, QueueOwner)
     IN  /\ SetProc(Q)
         /\ processing_task' = IF \E fid \in DOMAIN Q.inflight : Q.inflight[fid] = QueueOwner
                               THEN "busy" ELSE DrainResume
  /\ queue' = Tail(queue)
  /\ UNCHANGED <<is_processing, llm, budget, io, sweeps, is_running, observer, file_handler,
                 periodic, faults>>

\* _process_queue (lines 150-173): the drain task takes the head of the queue
\* and calls process_single_file on it (never forced).
DrainTake ==
  /\ is_running
  /\ file_handler
  /\ processing_task = "idle"
  /\ queue # <<>>
  /\ Room(1)
  /\ LET Q == StartCall(Proc, Head(queue), FALSE, QueueOwner)
     IN  /\ SetProc(Q)
         /\ processing_task' = IF \E fid \in DOMAIN Q.inflight : Q.inflight[fid] = QueueOwner
                               THEN "busy" ELSE DrainResume
  /\ queue' = Tail(queue)
  /\ UNCHANGED <<is_processing, llm, budget, io, sweeps, is_running, observer, file_handler,
                 periodic, faults>>

\* _periodic_processing (lines 175-186): after its sleep the task calls
\* process_files(); a refused sweep returns at once and the loop goes on.
PeriodicWake(l) ==
  /\ l \in 1..Len(periodic)
  /\ periodic[l] = "sleep"
  /\ IF SweepRefused
     THEN /\ ~is_running
          /\ periodic' = [periodic EXCEPT ![l] = "exited"]
          /\ UNCHANGED <<procVars, is_processing, llm, budget, io, sweeps, is_running, observer,
                         file_handler, queue, processing_task, faults>>
     ELSE SweepBegin(l, FALSE)

AfterSweepErrorExits == "exited"

\* Where the periodic task is after "except Exception as e" has caught what
\* process_files raised (lines 184-186): in asyncio.sleep(30).
AfterSweepError == "backoff"

\* _periodic_processing when process_files() raises: iterdir() on the intake
\* folder fails (invoice_processor.py line 401) after is_processing was set;
\* the finally clause clears the flag and the loop's except clause catches
\* the error.
PeriodicSweepRaises(l) ==
  /\ l \in 1..Len(periodic)
  /\ periodic[l] = "sleep"
  /\ ~SweepRefused
  /\ faults < MaxFaults
  /\ faults' = faults + 1
  /\ is_processing' = FALSE
  /\ periodic' = [periodic EXCEPT ![l] = AfterSweepError]
  /\ UNCHANGED <<procVars, llm, budget, io, sweeps, is_running, observer, file_handler,
                 queue, processing_task>>

\* asyncio.sleep(30) of the except clause returns: back to the head of the
\* loop.
BackoffEnds(l) ==
  /\ l \in 1..Len(periodic)
  /\ periodic[l] = "backoff"
  /\ periodic' = [periodic EXCEPT ![l] = LoopCheck]
  /\ UNCHANGED <<procVars, is_processing, llm, budget, io, sweeps, is_running, observer,
                 file_handler, queue, processing_task, faults>>

\* ------------------------------------------------------------ watch events
\* The thread a handler method is called in: watchdog's observer thread, which
\* observer.start() (line 104) creates and which dispatches every event of the
\* watch, or the thread of the event loop (a direct call from a coroutine).
Threads == {"observer", "loop"}

\* asyncio.create_task needs the running loop of the calling thread and
\* raises RuntimeError where there is none.
create_task(thread) == IF thread = "loop" THEN "task" ELSE "RuntimeError"

\* An entry appears in the watched folder; the observer of a running service
\* notes a created (or moved-in) event for it.
Arrive(entry) ==
  /\ io.op = "watch"
  /\ entry \notin intake
  /\ intake' = intake \cup {entry}
  /\ io' = IF observer THEN [io EXCEPT !.events = @ \cup {entry}] ELSE io
  /\ UNCHANGED <<generated, results, processing_results, inflight, stats,
                 is_processing, llm, budget, sweeps, faults>>
  /\ UNCHANGED monitorVars

\* on_created / on_moved and _handle_new_file (lines 25-50) for the event of
\* `entry`: directories and unsupported names are dropped; for the others
\* create_task(_queue_file_for_processing(path)) is called, and the
\* RuntimeError it raises is caught and logged by the except clause.
on_created(entry, thread) ==
  /\ io.op = "watch"
  /\ file_handler
  /\ entry \in io.events
  /\ io' = [io EXCEPT
              !.events = @ \ {entry},
              !.settling = IF /\ entry # "archive"
                              /\ is_supported_format(entry)
                              /\ create_task(thread) = "task"
                           THEN @ \cup {entry} ELSE @]
  /\ UNCHANGED programVars

\* _queue_file_for_processing (lines 52-66) after its sleep of 2 seconds.
_queue_file_for_processing(entry) ==
  /\ io.op = "watch"
  /\ entry \in io.settling
  /\ io' = [io EXCEPT !.settling = @ \ {entry}]
  /\ queue' = IF entry \in intake /\ is_file(entry) THEN Append(queue, entry) ELSE queue
  /\ UNCHANGED <<procVars, is_processing, llm, budget, sweeps, faults, is_running,
                 observer, file_handler, processing_task, periodic>>

\* ------------------------------------------------------------ specification
NoStats == [total_processed |-> 0, successful |-> 0, failed |-> 0, pending |-> 0,
            processing |-> 0, average_processing_time |-> 0]

InitProgram(files, n, k, b) ==
  /\ budget = [calls |-> n, starts |-> k, batch |-> b]
  /\ intake = files
  /\ generated = {}
  /\ results = <<>>
  /\ processing_results = {}
  /\ inflight = <<>>
  /\ stats = NoStats
  /\ is_processing = FALSE
  /\ llm \in BOOLEAN
  /\ sweeps = <<>>
  /\ is_running = FALSE
  /\ observer = FALSE
  /\ file_handler = FALSE
  /\ queue = <<>>
  /\ processing_task = "none"
  /\ periodic = <<>>
  /\ faults = 0

NoCall == [op |-> "none"]

InitWith(files, n, k, b) == InitProgram(files, n, k, b) /\ io = NoCall

TwoFiles == {"a.jpg", "big.jpg"}

Init == \E files \in SUBSET TwoFiles : InitWith(files, MaxCalls, MaxStarts, batch_size)

InitSweep == InitWith(Files, MaxSweepCalls, MaxStarts, batch_size)

ReqNext ==
  \/ trigger_processing
  \/ \E s \in ActiveSweeps : SweepStep(s)
  \/ \E fid \in DOMAIN inflight, outcome \in Outcomes : Complete(fid, outcome)

MonNext ==
  \/ start_monitoring
  \/ stop_monitoring
  \/ DrainTake
  \/ \E l \in 1..Len(periodic) : PeriodicWake(l)
  \/ \E l \in 1..Len(periodic) : PeriodicSweepRaises(l)
  \/ \E l \in 1..Len(periodic) : BackoffEnds(l)

SingleNext ==
  \/ \E f \in Files, force \in BOOLEAN : ProcessSpecific(f, force)
  \/ \E fid \in DOMAIN inflight, outcome \in Outcomes : Complete(fid, outcome)

StoreNext ==
  \/ \E fid \in FileIds : delete_result(fid)
  \/ get_statistics

Next ==
  \/ \E f \in TwoFiles : DropFile(f)
  \/ MonNext
  \/ \E s \in ActiveSweeps : SweepStep(s)
  \/ \E fid \in DOMAIN inflight, outcome \in Outcomes : Complete(fid, outcome)
  \/ \E fid \in FileIds : delete_result(fid)

Spec == Init /\ [][Next]_vars

SpecSweep == InitSweep /\ [][ReqNext]_vars

StoreSpecNext ==
  \/ \E f \in TwoFiles : DropFile(f)
  \/ SingleNext
  \/ StoreNext

SpecStore == Init /\ [][StoreSpecNext]_vars

\* ------------------------------------------------------ get_recent_results
\* list(self.processing_results.values()): the results in insertion order,
\* each given by its updated_at.
Stores == UNION {[1..n -> 1..MaxTime] : n \in 0..MaxStore}

\* list.sort(key=updated_at, reverse=True) is stable: a result stays behind
\* the earlier-inserted results whose updated_at is not older than its own.
StaysBehindOlder(earlier, later) == earlier <= later

StaysBehind(earlier, later) == earlier >= later

RECURSIVE InsertSorted(_, _, _)
InsertSorted(sorted, store, x) ==
  IF sorted # <<>> /\ StaysBehind(store[Head(sorted)], store[x])
  THEN <<Head(sorted)>> \o InsertSorted(Tail(sorted), store, x)
  ELSE <<x>> \o sorted

RECURSIVE SortByUpdated(_, _)
SortByUpdated(store, n) ==
  IF n = 0 THEN <<>> ELSE InsertSorted(SortByUpdated(store, n - 1), store, n)

\* results[:limit] for limit >= 0; the result is the list of positions.
get_recent_results(store, limit) ==
  SubSeq(SortByUpdated(store, Len(store)), 1, Min(limit, Len(store)))

\* A call of get_recent_results(limit) on the store io.store.
RecentCall ==
  /\ io.op = "request"
  /\ io' = [io EXCEPT !.op = "get_recent_results",
                      !.out = get_recent_results(io.store, io.limit),
                      !.store_after = io.store]
  /\ UNCHANGED programVars

InitRecent ==
  /\ InitProgram({}, MaxCalls, MaxStarts, batch_size)
  /\ \E store \in Stores, limit \in 0..MaxLimit :
       io = [op |-> "request", store |-> store, limit |-> limit, out |-> <<>>,
             store_after |-> <<>>]

SpecRecent == InitRecent /\ [][RecentCall]_vars

\* --------------------------------------------------------- response parser
\* The model's text, by what the parser's patterns find in it: the content of
\* the first ```json fence and of the first brace-delimited object ("none" if
\* there is none), and the fields the fallback patterns match.  A candidate is
\* "valid" (json.loads gives a dict InvoiceData accepts), "malformed"
\* (json.loads raises JSONDecodeError) or "rejected" (it parses, InvoiceData
\* raises).
CandidateKinds == {"valid", "malformed", "rejected"}

FieldNames == {"invoice_number", "date", "vendor_name", "total_amount", "currency"}

Texts == [fenced : CandidateKinds \cup {"none"}, brace : CandidateKinds \cup {"none"},
          fields : SUBSET FieldNames]

\* data.setdefault(...) of _extract_fallback_data (lines 275-281); "0.0" is
\* the float 0.0 and "[]" the empty list.
FallbackDefault(key) ==
  CASE key = "total_amount" -> "0.0"
    [] key = "currency"     -> "USD"
    [] key = "line_items"   -> "[]"
    [] OTHER                -> "UNKNOWN"

\* _extract_fallback_data (lines 214-283): the matched fields, defaults for
\* the rest, and None (found = FALSE) unless some value is neither 'UNKNOWN'
\* nor 0.0.
_extract_fallback_data(text) ==
  LET data == [key \in FieldNames \cup {"line_items"} |->
                 IF key \in text.fields THEN "matched" ELSE FallbackDefault(key)]
  IN  IF \E key \in DOMAIN data : data[key] # "UNKNOWN" /\ data[key] # "0.0"
      THEN [found |-> TRUE, data |-> data] ELSE [found |-> FALSE, data |-> data]

\* Lines 168-178: the fenced block if there is one, else the first
\* brace-delimited object, else no JSON candidate.
JsonCandidateBraceFirst(text) ==
  IF text.brace # "none" THEN "brace"
  ELSE IF text.fenced # "none" THEN "fenced"
  ELSE "none"

JsonCandidate(text) ==
  IF text.fenced # "none" THEN "fenced"
  ELSE IF text.brace # "none" THEN "brace"
  ELSE "none"

ParseError(c, message, ran) ==
  [result |-> "raise", candidate |-> c, source |-> "none", data |-> message,
   fallback_run |-> ran]

ParseRecord(c, source, data, ran) ==
  [result |-> "record", candidate |-> c, source |-> source, data |-> data,
   fallback_run |-> ran]

\* process_invoice_image from the model's response to its return (lines
\* 163-212).
ParseResponse(text) ==
  LET c == JsonCandidate(text)
      kind == IF c = "none" THEN "none" ELSE text[c]
      fallback == _extract_fallback_data(text)
  IN  CASE c = "none" ->
             IF fallback.found THEN ParseRecord(c, "fallback", fallback.data, TRUE)
             ELSE ParseError(c, "No valid JSON found in AI response", TRUE)
        [] kind = "valid" -> ParseRecord(c, c, <<"json", c>>, FALSE)
        [] kind = "rejected" -> ParseError(c, "validation error", FALSE)
        [] kind = "malformed" ->
             IF fallback.found THEN ParseRecord(c, "fallback", fallback.data, TRUE)
             ELSE ParseError(c, "Invalid JSON response from AI model", TRUE)

\* The parser is applied to the text io.text.
ParseCall ==
  /\ io.op = "request"
  /\ io' = [io EXCEPT !.op = "parse", !.out = ParseResponse(io.text)]
  /\ UNCHANGED programVars

InitParser ==
  /\ InitProgram({}, MaxCalls, MaxStarts, batch_size)
  /\ \E text \in Texts : io = [op |-> "request", text |-> text, out |-> <<>>]

SpecParser == InitParser /\ [][ParseCall]_vars

\* ------------------------------------------------------------ unique names
\* The directories ensure_unique_filename is applied to: a.jpg and its
\* counter-suffixed names, and one other file.
Directories == SUBSET ({<<"a", "jpg", k>> : k \in 0..MaxCounter} \cup {<<"b", "jpg", 0>>})

\* ensure_unique_filename(target) is applied in the directory io.dir.
UniqueCall ==
  /\ io.op = "request"
  /\ io' = [io EXCEPT !.op = "unique",
                       !.out = ensure_unique_filename(io.dir, io.target[1], io.target[2]),
                       !.dir_after = io.dir]
  /\ UNCHANGED programVars

InitUnique ==
  /\ InitProgram({}, MaxCalls, MaxStarts, batch_size)
  /\ \E dir \in Directories, stem \in {"a", "b"} :
       io = [op |-> "request", dir |-> dir, target |-> <<stem, "jpg", 0>>,
             out |-> <<>>, dir_after |-> {}]

SpecUnique == InitUnique /\ [][UniqueCall]_vars

\* ---------------------------------------------------------------- HTTP API
\* What a handler's try block ends with: a return, or the HTTPException it
\* raises.
ReturnedOk == [kind |-> "return", status_code |-> 200]

Raised(status_code) == [kind |-> "HTTPException", status_code |-> status_code]

\* Every handler's "except Exception as e: raise HTTPException(status_code=500,
\* detail=str(e))": HTTPException is an Exception, so the clause also catches
\* the one raised in the try block.  chosen is the status of the try block,
\* status the one of the response.
Respond(handler, outcome) ==
  [handler |-> handler, chosen |-> outcome.status_code,
   status |-> IF outcome.kind = "HTTPException" THEN 500 ELSE outcome.status_code]

\* An upload's filename as its parts between dots: <<"a", "jpg">> is a.jpg,
\* <<"jpg">> is the name jpg without a dot, <<"", "jpg">> is .jpg, <<>> is no
\* filename.
UploadNames ==
  {<<>>, <<"a", "jpg">>, <<"a", "txt">>, <<"jpg">>, <<"", "jpg">>, <<"a", "JPG">>}

\* str.lower() on the parts that occur.
Lower(part) == IF part = "JPG" THEN "jpg" ELSE part

\* file.filename.split('.')[-1].lower() (line 177).
UploadExtension(filename) == Lower(filename[Len(filename)])

\* Path(file.filename).stem and .suffix (without the dot; "" if none): a
\* leading dot starts no suffix, so .jpg has the stem .jpg and no suffix.
UploadStem(filename) == IF filename[1] = "" THEN ".jpg" ELSE filename[1]

UploadSuffix(filename) ==
  IF Len(filename) >= 2 /\ filename[1] # "" THEN filename[Len(filename)] ELSE ""

\* is_supported_format(file.filename, supported_formats_list): the lower-case
\* suffix of the name is a supported format.
UploadIsSupported(filename) ==
  filename # <<>> /\ Lower(UploadSuffix(filename)) \in supported_formats_list

\* The try block of upload_invoice up to the choice of the path (lines
\* 172-181): the status it raises, or 200.
UploadCheck(filename) ==
  IF filename = <<>> THEN Raised(400)
  ELSE IF UploadExtension(filename) \notin supported_formats_list THEN Raised(400)
  ELSE ReturnedOk

UploadPathOriginal(dir, filename) == <<UploadStem(filename), UploadSuffix(filename), 0>>

\* Lines 184-193: incoming_path / filename, then stem_1, stem_2, ... while the
\* path exists.
UploadPath(dir, filename) ==
  LET free == {k \in 0..Cardinality(dir) :
                 <<UploadStem(filename), UploadSuffix(filename), k>> \notin dir}
  IN  <<UploadStem(filename), UploadSuffix(filename),
        CHOOSE k \in free : \A j \in free : k <= j>>

\* POST /upload from the request to "await file.read()" (lines 172-197): the
\* checks, the choice of the path and open(file_path, "wb"), which creates the
\* file empty (or empties it).  A rejected upload ends here.
upload_invoice(filename) ==
  /\ io.op = "api"
  /\ io.n < MaxUploads
  /\ LET id == io.n + 1
         outcome == UploadCheck(filename)
         file_path == UploadPath(DOMAIN io.dir, filename)
     IN  IF outcome.kind = "HTTPException"
         THEN io' = [io EXCEPT !.n = id, !.response = Respond("upload", outcome)]
         ELSE io' = [io EXCEPT
                       !.n = id,
                       !.dir = [q \in DOMAIN io.dir \cup {file_path} |->
                                  IF q = file_path THEN [owner |-> id, written |-> FALSE]
                                  ELSE io.dir[q]],
                       !.uploads = [u \in DOMAIN io.uploads \cup {id} |->
                                      IF u = id THEN file_path ELSE io.uploads[u]]]
  /\ UNCHANGED programVars

\* POST /upload from the return of file.read() to the response (lines
\* 197-218): the content is written and process_files(specific_file) is added
\* to the background tasks when there is a processor.
upload_invoice_written(id) ==
  /\ io.op = "api"
  /\ id \in DOMAIN io.uploads
  /\ LET file_path == io.uploads[id]
     IN  io' = [io EXCEPT
                  !.dir = [@ EXCEPT ![file_path] = [owner |-> id, written |-> TRUE]],
                  !.uploads = [u \in DOMAIN io.uploads \ {id} |-> io.uploads[u]],
                  !.tasks = IF io.invoice_processor THEN @ \cup {file_path} ELSE @,
                  !.response = Respond("upload", ReturnedOk)]
  /\ UNCHANGED programVars

\* GET /stats (lines 123-137).
get_processing_stats ==
  /\ io.op = "api"
  /\ io' = [io EXCEPT !.response =
              Respond("stats", IF ~io.invoice_processor THEN Raised(503) ELSE ReturnedOk)]
  /\ UNCHANGED programVars

\* GET /results/{file_id} (lines 239-253).
get_processing_result(fid) ==
  /\ io.op = "api"
  /\ io' = [io EXCEPT !.response =
              Respond("get_result",
                      IF ~io.invoice_processor THEN Raised(503)
                      ELSE IF fid \notin processing_results THEN Raised(404)
                      ELSE ReturnedOk)]
  /\ UNCHANGED programVars

\* DELETE /results/{file_id} (lines 268-287), delete_result included.
delete_processing_result(fid) ==
  /\ io.op = "api"
  /\ io' = [io EXCEPT !.response =
              Respond("delete_result",
                      IF ~io.invoice_processor THEN Raised(503)
                      ELSE IF ~delete_result_returns(fid) THEN Raised(404)
                      ELSE ReturnedOk)]
  /\ processing_results' = IF io.invoice_processor THEN processing_results \ {fid}
                           ELSE processing_results
  /\ UNCHANGED <<intake, generated, results, inflight, stats, is_processing, llm,
                 budget, sweeps, faults>>
  /\ UNCHANGED monitorVars

\* The intake folder holds some of a.jpg and a_1.jpg; invoice_processor is
\* the module's global, None when the startup could not create it.
InitApi ==
  /\ InitProgram({}, MaxCalls, MaxStarts, batch_size)
  /\ \E present \in SUBSET {<<"a", "jpg", 0>>, <<"a", "jpg", 1>>},
        invoice_processor \in BOOLEAN :
       io = [op |-> "api", invoice_processor |-> invoice_processor, n |-> 0,
             dir |-> [q \in present |-> [owner |-> 0, written |-> TRUE]],
             uploads |-> <<>>, tasks |-> {},
             response |-> Respond("none", ReturnedOk)]

ApiNext ==
  \/ \E filename \in UploadNames : upload_invoice(filename)
  \/ \E id \in 1..MaxUploads : upload_invoice_written(id)
  \/ get_processing_stats
  \/ \E fid \in FileIds : get_processing_result(fid)
  \/ \E fid \in FileIds : delete_processing_result(fid)

SpecApi == InitApi /\ [][ApiNext]_vars

\* The service started and stopped more than once, with its tasks.
InitLife == \E files \in SUBSET TwoFiles : InitWith(files, MaxCalls, MaxLifeStarts, batch_size)

LifeNext ==
  \/ MonNext
  \/ \E s \in ActiveSweeps : SweepStep(s)
  \/ \E fid \in DOMAIN inflight, outcome \in Outcomes : Complete(fid, outcome)

SpecLife == InitLife /\ [][LifeNext]_vars

\* The queue drain task of a started service.  The event loop runs a task
\* that is ready, and every model call returns, fails or times out (lines
\* 155-161, 314-320), so the drain task's steps are weakly fair.
InitDrain == \E files \in SUBSET Files : InitWith(files, Cardinality(Files), MaxStarts, batch_size)

CallEnds == \E fid \in DOMAIN inflight, outcome \in Outcomes : Complete(fid, outcome)

DrainNext ==
  \/ start_monitoring
  \/ DrainTake
  \/ CallEnds

SpecDrain ==
  InitDrain /\ [][DrainNext]_vars /\ WF_vars(DrainTake) /\ WF_vars(CallEnds)

\* A service being started on a folder that holds invoices, another file
\* and a directory, with entries arriving while it runs.
WatchEntries == {"a.jpg", "b.jpg"} \cup OtherEntries

InitWatch ==
  /\ \E files \in SUBSET WatchEntries : InitProgram(files, MaxCalls, MaxStarts, batch_size)
  /\ io = [op |-> "watch", events |-> {}, settling |-> {}]

WatchNext ==
  \/ start_monitoring
  \/ \E entry \in WatchEntries : Arrive(entry)
  \/ \E entry \in WatchEntries, thread \in Threads : on_created(entry, thread)
  \/ \E entry \in WatchEntries : _queue_file_for_processing(entry)
  \/ DrainTake
  \/ CallEnds

SpecWatch == InitWatch /\ [][WatchNext]_vars

\* A started service left running, with files put into the folder at any
\* time.  asyncio.sleep returns after its delay and the event loop runs a
\* task that is ready, so the periodic task's steps and the steps of the
\* sweep it awaits are weakly fair; every model call returns or times out
\* (lines 155-161).  The drain task runs beside them.
InitPeriodic ==
  \E files \in SUBSET TwoFiles : InitWith(files, MaxPeriodicCalls, MaxStarts, batch_size)

CallReturns ==
  \E fid \in DOMAIN inflight, outcome \in {"ok", "ai_timeout"} : Complete(fid, outcome)

PeriodicWakes == \E l \in 1..Len(periodic) : PeriodicWake(l)

SweepSteps == \E s \in ActiveSweeps : SweepStep(s)

PeriodicNext ==
  \/ start_monitoring
  \/ \E f \in TwoFiles : DropFile(f)
  \/ DrainTake
  \/ PeriodicWakes
  \/ SweepSteps
  \/ CallReturns

SpecPeriodic ==
  InitPeriodic /\ [][PeriodicNext]_vars
    /\ WF_vars(PeriodicWakes) /\ WF_vars(SweepSteps) /\ WF_vars(CallReturns)

\* Full-folder sweeps requested one after the other (POST /process without
\* file_path), over any set of files in the intake folder.
InitBatch ==
  \E files \in SUBSET BatchFiles, b \in 1..batch_size :
    InitWith(files, MaxSweepCalls, MaxStarts, b)

BatchNext ==
  \/ \E force \in BOOLEAN : SweepBegin(0, force)
  \/ \E s \in ActiveSweeps : SweepStep(s)
  \/ CallEnds

SpecBatch == InitBatch /\ [][BatchNext]_vars

\* ------------------------------------------------------------------ claims
Terminal == {"success", "failed"}

ResultsOf(f) == {fid \in DOMAIN results : results[fid].original_filename = f}

HasStoredSuccess(f) ==
  \E fid \in processing_results :
    results[fid].original_filename = f /\ results[fid].status = "success"

HasFailed(f) == \E fid \in ResultsOf(f) : results[fid].status = "failed"

\* A started service with uploads arriving while it runs.  io.writing holds
\* the intake files an upload has created and not yet written.
UploadFiles == {"a.jpg", "b.jpg"}

\* POST /upload of a supported name that is free in the folder, from the
\* request to "await file.read()" (main.py lines 172-197): open(file_path,
\* "wb") creates the file empty, then the handler awaits the body, which for a
\* body spooled to disk is read in the thread pool while the event loop runs
\* other tasks.
UploadOpens(f) ==
  /\ io.op = "upload"
  /\ f \in UploadFiles \ (intake \cup io.writing)
  /\ intake' = intake \cup {f}
  /\ io' = [io EXCEPT !.writing = @ \cup {f}]
  /\ UNCHANGED <<generated, results, processing_results, inflight, stats,
                 is_processing, llm, budget, sweeps, faults>>
  /\ UNCHANGED monitorVars

\* file.read() has returned: buffer.write(content) and the end of the with
\* block (main.py lines 197-198).  The file descriptor is written whether or
\* not the name is still in the folder.
UploadWrites(f) ==
  /\ io.op = "upload"
  /\ f \in io.writing
  /\ io' = [io EXCEPT !.writing = @ \ {f}]
  /\ UNCHANGED programVars

\* The background task the upload added (main.py lines 203-207):
\* process_files(specific_file) after the response, so after the write.
UploadTask(f) ==
  /\ io.op = "upload"
  /\ f \in UploadFiles \ io.writing
  /\ ProcessSpecific(f, FALSE)

InitUpload ==
  /\ \E files \in SUBSET UploadFiles : InitProgram(files, MaxCalls, MaxStarts, batch_size)
  /\ io = [op |-> "upload", writing |-> {}]

UploadNext ==
  \/ start_monitoring
  \/ \E f \in UploadFiles : UploadOpens(f)
  \/ \E f \in UploadFiles : UploadWrites(f)
  \/ \E f \in UploadFiles : UploadTask(f)
  \/ DrainTake
  \/ PeriodicWakes
  \/ SweepSteps
  \/ CallReturns

SpecUpload == InitUpload /\ [][UploadNext]_vars

\* On-demand requests that name any path.  io.outside holds the names of the
\* files that are at /srv, outside the intake folder; x.jpg stands for the
\* path /srv/x.jpg and the other names for paths below the intake folder.
OutsideFiles == {"x.jpg"}

RequestPaths == {"a.jpg"} \cup OutsideFiles

\* The processor with the files a path can name: file_path.exists(),
\* shutil.copy2 and unlink act on the filesystem, not on the intake folder.
FsView == [Proc EXCEPT !.intake = intake \cup io.outside]

\* The primed variables from a processor over the whole filesystem.
SetProcAnywhere(Q) ==
  \E q \in {Q} :
    /\ results' = q.results
    /\ processing_results' = q.processing_results
    /\ inflight' = q.inflight
    /\ stats' = q.stats
    /\ generated' = q.generated
    /\ intake' = q.intake \ OutsideFiles
    /\ io' = [io EXCEPT !.outside = q.intake \cap OutsideFiles]

\* process_files(specific_file, force) with the file_path of POST /process
\* (invoice_processor.py lines 387-396, 427): Path(specific_file) if it
\* exists, else incoming_path / specific_file; an existing regular file goes
\* to process_single_file.
ProcessAnywhere(path, force) ==
  /\ io.op = "fs"
  /\ path \in RequestPaths
  /\ IF path \in FsView.intake
     THEN /\ Room(1)
          /\ LET Q == StartCall(FsView, path, force, SingleOwner)
             IN  /\ SetProcAnywhere(Q)
                 /\ is_processing' = IF DOMAIN Q.inflight # DOMAIN inflight
                                     THEN TRUE ELSE FlagAfterSingle
     ELSE /\ is_processing' = FlagAfterSingle
          /\ UNCHANGED <<procVars, io>>
  /\ UNCHANGED <<llm, budget, sweeps, faults>>
  /\ UNCHANGED monitorVars

\* The model call of such a request returns and process_single_file runs to
\* its end (lines 322-372), then the finally clause of process_files.
CompleteAnywhere(fid, outcome) ==
  /\ io.op = "fs"
  /\ fid \in DOMAIN inflight
  /\ outcome \in Outcomes
  /\ IF outcome = "ok" THEN faults' = faults
     ELSE faults < MaxFaults /\ faults' = faults + 1
  /\ SetProcAnywhere(CompleteCall(FsView, fid, outcome))
  /\ is_processing' = FlagAfterSingle
  /\ UNCHANGED <<llm, budget, sweeps>>
  /\ UNCHANGED monitorVars

InitAnywhere ==
  /\ \E files \in SUBSET {"a.jpg"} : InitProgram(files, MaxCalls, MaxStarts, batch_size)
  /\ \E outside \in SUBSET OutsideFiles : io = [op |-> "fs", outside |-> outside]

AnywhereNext ==
  \/ \E path \in RequestPaths, force \in BOOLEAN : ProcessAnywhere(path, force)
  \/ \E fid \in DOMAIN inflight, outcome \in Outcomes : CompleteAnywhere(fid, outcome)

SpecAnywhere == InitAnywhere /\ [][AnywhereNext]_vars

\* The step starts a call of process_single_file on f: it creates a result
\* object for f, or puts a call for f in flight.
StartsCallOn(f) ==
  \/ \E fid \in DOMAIN results' \ DOMAIN results : results'[fid].original_filename = f
  \/ \E fid \in DOMAIN inflight' \ DOMAIN inflight : results'[fid].original_filename = f

\* The call that owns result fid ends in this step.
Ends(fid) ==
  /\ fid \in DOMAIN results'
  /\ results'[fid].status # "processing"
  /\ fid \in DOMAIN results => results[fid].status = "processing"

Occurrences(q, f) == Cardinality({i \in 1..Len(q) : q[i] = f})

CallsInFlightOn(f) ==
  Cardinality({fid \in DOMAIN inflight : results[fid].original_filename = f})

RECURSIVE SumTimes(_)
SumTimes(fids) ==
  IF fids = {} THEN 0
  ELSE LET fid == CHOOSE x \in fids : TRUE
       IN  results[fid].processing_time + SumTimes(fids \ {fid})

StoredWith(status) == {fid \in processing_results : results[fid].status = status}

EndedWith(status) == {fid \in DOMAIN results : results[fid].status = status}

\* C1: a process_single_file call without force on a file that has a stored
\* success result creates no new result record and invokes the model no more
\* (every call of Spec, from the drain loop or a periodic sweep, is unforced).
C1_CachedResultReused ==
  [][\A f \in Files : HasStoredSuccess(f) => ~StartsCallOn(f)]_vars

\* C2: once a call on a file has ended failed, neither the periodic sweep nor
\* the drain loop (the only callers in Spec) starts a call on that file again.
C2_FailedNotRetried ==
  [][\A f \in Files : HasFailed(f) => ~StartsCallOn(f)]_vars

\* C3: an intake path is held at most once across the processing queue and
\* the calls in flight.
C3_PathHeldOnce ==
  \A f \in Files : Occurrences(queue, f) + CallsInFlightOn(f) <= 1

\* C4: at most one full-folder sweep is active at any time.
C4_OneSweepAtATime == Cardinality(ActiveSweeps) <= 1

\* C5 as claimed: a call that ends without success has status failed and a
\* non-empty error_message, and its result is in the store under its file_id.
C5_FailureRecordedAndStored ==
  [][\A fid \in DOMAIN results' :
       (Ends(fid) /\ results'[fid].status # "success")
         => /\ results'[fid].status = "failed"
            /\ results'[fid].error_message # ""
            /\ fid \in processing_results']_vars

\* C5 as amended: a call that ends without success has status failed and a
\* non-empty error_message, and its result is in the store under its file_id
\* unless delete_result removed that entry while the call was in flight.
C5_FailureRecorded ==
  [][\A fid \in DOMAIN results' :
       (Ends(fid) /\ results'[fid].status # "success")
         => /\ results'[fid].status = "failed"
            /\ results'[fid].error_message # ""
            /\ (fid \in DOMAIN results => fid \in processing_results)
                 => fid \in processing_results']_vars

C5_Witness ==
  \E fid \in processing_results :
    /\ results[fid].status = "failed"
    /\ results[fid].error_message = "cannot remove source"

\* C6: the status of a result object only moves forward: processing changes
\* only to success or failed, success and failed never change.
C6_StatusForward ==
  [][\A fid \in DOMAIN results :
       /\ fid \in DOMAIN results'
       /\ results[fid].status = "processing"
            => results'[fid].status \in {"processing", "success", "failed"}
       /\ results[fid].status \in Terminal
            => results'[fid].status = results[fid].status]_vars

\* A file was processed again after a terminal result, a result was deleted
\* and the service was stopped with a result still in processing.
C6_Witness ==
  /\ \E f \in Files : \E fid \in ResultsOf(f) :
       results[fid].status \in Terminal /\ Cardinality(ResultsOf(f)) >= 2
  /\ \E fid \in DOMAIN results : fid \notin processing_results
  /\ ~is_running /\ processing_task = "cancelled"

\* C7: total_processed, successful and failed count the calls that reached a
\* terminal state, each exactly once: successful is the number of results
\* that ended success, failed the number that ended failed, total their sum.
C7_CountersExact ==
  /\ stats.successful = Cardinality(EndedWith("success"))
  /\ stats.failed = Cardinality(EndedWith("failed"))
  /\ stats.total_processed = stats.successful + stats.failed

\* Both calls of a batch of two have ended, and a call has failed.
C7_Witness ==
  /\ stats.successful >= 2
  /\ stats.failed >= 1
  /\ \E s \in ActiveSweeps : sweeps[s].i = 0 /\ GatherDone(s)

\* C8 as claimed: what get_statistics returns has successful and failed equal
\* to the numbers of stored results with these statuses.
C8_StatsDerivedFromStore ==
  /\ ReadStats.successful = Cardinality(StoredWith("success"))
  /\ ReadStats.failed = Cardinality(StoredWith("failed"))

\* C8 as amended: what get_statistics returns has processing equal to the
\* number of stored results in processing and pending equal to the number of
\* intake files; successful and failed are the counters of the calls that
\* ended, whether their results are still stored or not.
C8_StatsCountCalls ==
  /\ ReadStats.processing = Cardinality(StoredWith("processing"))
  /\ ReadStats.pending = Cardinality(intake)
  /\ ReadStats.successful = Cardinality(EndedWith("success"))
  /\ ReadStats.failed = Cardinality(EndedWith("failed"))

\* A success result was deleted while another call is in flight.
C8_Witness ==
  /\ stats.successful = 1
  /\ StoredWith("success") = {}
  /\ StoredWith("processing") # {}

\* C9: what get_statistics returns has average_processing_time equal to the
\* mean of processing_time over the stored success results.
C9_AverageOverSuccess ==
  StoredWith("success") # {}
    => ReadStats.average_processing_time * Cardinality(StoredWith("success"))
         = SumTimes(StoredWith("success"))

\* C10: the calls of a sweep that are in flight are at most batch_size and
\* all belong to the sweep's current batch.
C10_BatchBounded ==
  \A s \in ActiveSweeps :
    /\ Cardinality(InFlight(SweepOwner(s))) <= batch_size
    /\ \A fid \in InFlight(SweepOwner(s)) :
         \E k \in 1..Len(Batch(sweeps[s].files, sweeps[s].i)) :
           Batch(sweeps[s].files, sweeps[s].i)[k] = results[fid].original_filename

\* A sweep of three files has started its second batch.
C10_Witness ==
  \E s \in ActiveSweeps : sweeps[s].i >= batch_size /\ Len(sweeps[s].files) > batch_size

\* C11: a failure while the drain loop processes one queued file ends neither
\* the drain loop nor the service: the started service stays running, the
\* drain task does not end, and every file waiting in the queue is taken and
\* processed to a terminal result.
C11_DrainSurvivesFailure ==
  /\ [](periodic # <<>> => (is_running /\ processing_task \in {"idle", "busy"}))
  /\ \A f \in Files :
       (Occurrences(queue, f) > 0)
         ~> (Occurrences(queue, f) = 0
             /\ \E fid \in ResultsOf(f) : results[fid].status \in Terminal)

\* The call on the first queued file failed after the model call, and the
\* file queued behind it was then taken and processed.
C11_Witness ==
  /\ is_running
  /\ \E fid \in ResultsOf("a.jpg") :
       results[fid].status = "failed" /\ results[fid].processing_time = Elapsed(TRUE)
  /\ \E fid \in ResultsOf("b.jpg") : results[fid].status = "success"

\* C12: start_monitoring on a running service is a no-op: no second observer,
\* drain task or periodic task, the file handler and its queue are not
\* replaced, and is_running stays true.
C12_StartIdempotent ==
  [][(is_running /\ start_monitoring)
       => /\ is_running'
          /\ Len(periodic') = Len(periodic)
          /\ UNCHANGED <<observer, processing_task, file_handler, queue>>]_vars

\* A running service with a file waiting in the queue, the drain task busy
\* with a call, and a further start still allowed.
C12_Witness ==
  /\ is_running
  /\ queue # <<>>
  /\ processing_task = "busy"
  /\ Len(periodic) < budget.starts

\* C13: after stop_monitoring on a running service is_running is false and
\* the observer and the file handler are unset; stop_monitoring on a service
\* that is not running changes nothing.
C13_StopTearsDown ==
  [][stop_monitoring
       => /\ ~is_running' /\ ~observer' /\ ~file_handler'
          /\ ~is_running => UNCHANGED vars]_vars

\* A service that was started, had a file in flight in its drain task, and
\* was stopped.
C13_Witness ==
  /\ ~is_running /\ ~observer /\ ~file_handler
  /\ periodic # <<>>
  /\ processing_task = "cancelled"
  /\ \E fid \in DOMAIN results : results[fid].status = "processing"

\* C14: once stop_monitoring has returned, the periodic loop starts no
\* further full-folder sweep (every sweep of Spec is a periodic one).
C14_NoSweepAfterStop ==
  [][~is_running => Len(sweeps') = Len(sweeps)]_vars

\* C15: a call the drain loop has in flight when the service is stopped still
\* runs on to a terminal state: a result in status processing always belongs
\* to a call that is still running.
C15_InFlightRunsOn ==
  \A fid \in DOMAIN results :
    results[fid].status = "processing" => fid \in DOMAIN inflight

\* C16: a call started on a file that is no longer in the intake folder
\* records no failed result and does not increment the failed counter.
C16_MissingFileNotFailed ==
  [][\A fid \in DOMAIN results' \ DOMAIN results :
       results'[fid].original_filename \notin intake
         => /\ results'[fid].status # "failed"
            /\ stats'.failed = stats.failed]_vars

\* C17: an on-demand request for a file that cannot be processed (missing,
\* too large, or no model) leaves an entry for the file in the result store
\* with status failed and a message.
C17_UnprocessableLeavesFailedEntry ==
  [][\A f \in Files, force \in BOOLEAN :
       (/\ f \notin intake \/ ExceedsLimit(get_file_size_mb(intake, f)) \/ ~llm
        /\ ProcessSpecific(f, force))
         => \E fid \in processing_results' :
              /\ results'[fid].original_filename = f
              /\ results'[fid].status = "failed"
              /\ results'[fid].error_message # ""]_vars

Timeouts == {"ai_timeout", "file_timeout"}

TimeoutMessages == {FaultMessage(o) : o \in Timeouts}

C19_SizeBoundary ==
  [][\A fid \in DOMAIN results' \ DOMAIN results :
       LET size == get_file_size_mb(intake, results'[fid].original_filename)
       IN  /\ (size = max_file_size_mb * BytesPerMB /\ llm)
                => /\ results'[fid].status = "processing"
                   /\ fid \in DOMAIN inflight'
           /\ size = max_file_size_mb * BytesPerMB + 1
                => /\ results'[fid].status = "failed"
                   /\ results'[fid].error_message
                        = "File size exceeds maximum allowed size"
                   /\ fid \notin DOMAIN inflight']_vars

\* The file of exactly the maximum size was processed to success and the
\* file one byte larger was rejected.
C19_Witness ==
  /\ \E fid \in ResultsOf("a.jpg") : results[fid].status = "success"
  /\ \E fid \in ResultsOf("big.jpg") :
       /\ results[fid].status = "failed"
       /\ results[fid].error_message = "File size exceeds maximum allowed size"

AllValid(files) == \A k \in 1..Len(files) : ~ExceedsLimit(FileSizeOnDisk(files[k]))

\* C20: with a model that answers and no fault, the first full-folder sweep
\* over N files within the size limit, for any batch size, ends with exactly
\* N results in the store, all success, N JSON artifacts and N relocated
\* source files in the output folder, and an empty intake folder.
C20_SweepProcessesAll ==
  [][(/\ 1 \in ActiveSweeps /\ sweeps'[1] = FinishedSweep
      /\ llm /\ faults = 0 /\ AllValid(sweeps[1].files))
       => LET files == sweeps[1].files
          IN  /\ Cardinality(processing_results') = Len(files)
              /\ \A fid \in processing_results' : results'[fid].status = "success"
              /\ \A k \in 1..Len(files) :
                   /\ \E fid \in processing_results' :
                        results'[fid].original_filename = files[k]
                   /\ <<Stem(files[k]), "json", 0>> \in generated'
                   /\ <<Stem(files[k]), Suffix(files[k]), 0>> \in generated'
              /\ Cardinality(generated') = 2 * Len(files)
              /\ intake' = {}]_vars

\* A sweep over three valid files in batches of two has ended, all success.
C20_Witness ==
  /\ sweeps = <<FinishedSweep>>
  /\ budget.batch = 2
  /\ faults = 0
  /\ Cardinality(StoredWith("success")) = 3
  /\ intake = {}

\* C21: delete_result on an id in the store returns true and removes exactly
\* that entry (a get by that id misses, every other entry and every result
\* object is unchanged); on an id not in the store it returns false and
\* changes nothing.
C21_DeleteExactlyOne ==
  [][\A fid \in FileIds :
       delete_result(fid)
         => IF delete_result_returns(fid)
            THEN /\ fid \in processing_results
                 /\ fid \notin processing_results'
                 /\ processing_results' \cup {fid} = processing_results
                 /\ results' = results
            ELSE /\ fid \notin processing_results
                 /\ UNCHANGED vars]_vars

\* One of two stored results has been deleted, the other is still stored.
C21_Witness ==
  /\ Cardinality(DOMAIN results) = 2
  /\ Cardinality(processing_results) = 1
  /\ inflight = <<>>

\* C22: get_recent_results(limit) on a store of n results, limit >= 0,
\* returns exactly min(limit, n) results, the most recently updated ones in
\* descending order of updated_at, and leaves the store as it was.
C22_RecentSortedTruncated ==
  io.op = "get_recent_results"
    => LET n == Len(io.store)
           out == io.out
           Returned == {out[i] : i \in 1..Len(out)}
       IN  /\ Len(out) = Min(io.limit, n)
           /\ Cardinality(Returned) = Len(out)
           /\ Returned \subseteq 1..n
           /\ \A i, j \in 1..Len(out) :
                i < j => io.store[out[i]] >= io.store[out[j]]
           /\ \A x \in (1..n) \ Returned, y \in Returned :
                io.store[x] <= io.store[y]
           /\ io.store_after = io.store

\* Three results updated at instants 1, 3, 2 and limit 2: the results
\* updated at 3 and 2 are returned, in that order.
C22_Witness ==
  /\ io.op = "get_recent_results"
  /\ io.store = <<1, 3, 2>>
  /\ io.limit = 2
  /\ io.out = <<2, 3>>

C24_ParserOrder ==
  io.op = "parse"
    => LET text == io.text
           out == io.out
       IN  /\ text.fenced # "none" => out.candidate = "fenced"
           /\ (text.fenced = "none" /\ text.brace # "none") => out.candidate = "brace"
           /\ (text.fenced = "none" /\ text.brace = "none")
                => (out.candidate = "none" /\ out.fallback_run)
           /\ (out.candidate # "none" /\ text[out.candidate] = "valid")
                => /\ out.result = "record"
                   /\ out.source = out.candidate
                   /\ out.data = <<"json", out.candidate>>
                   /\ ~out.fallback_run

\* A text with a valid fenced block, a different brace-delimited object and
\* fields the patterns match: the record is the fenced block's.
C24_Witness ==
  /\ io.op = "parse"
  /\ io.text.fenced = "valid" /\ io.text.brace = "malformed"
  /\ io.text.fields = FieldNames
  /\ io.out.source = "fenced"

\* C30: ensure_unique_filename returns a path that does not exist: the target
\* when it is free, otherwise stem_k.ext for the smallest k >= 1 that is
\* free; the directory is the same after the call.
C30_UniqueName ==
  io.op = "unique"
    => LET stem == io.target[1]
           ext == io.target[2]
       IN  /\ io.out \notin io.dir
           /\ io.out[1] = stem /\ io.out[2] = ext
           /\ io.target \notin io.dir => io.out = io.target
           /\ io.target \in io.dir
                => /\ io.out[3] >= 1
                   /\ \A j \in 1..(io.out[3] - 1) : <<stem, ext, j>> \in io.dir
           /\ io.dir_after = io.dir

\* a.jpg, a_1.jpg and a_2.jpg exist: the call for a.jpg returns a_3.jpg.
C30_Witness ==
  /\ io.op = "unique"
  /\ io.target = <<"a", "jpg", 0>>
  /\ {e \in io.dir : e[1] = "a"} = {<<"a", "jpg", k>> : k \in 0..2}
  /\ io.out = <<"a", "jpg", 3>>

\* C25: the status a handler chooses (503, 404, 400) is the status of the
\* response.
C25_ChosenStatusReachesClient ==
  io.op = "api" => io.response.status = io.response.chosen

\* C26: no upload step changes a file that is already in the intake folder,
\* except that an upload writes the content of the file it created; and an
\* upload whose extension is not supported creates no file and schedules no
\* processing.
C26_UploadNeverOverwrites ==
  [][io.op = "api"
     => /\ \A q \in DOMAIN io.dir :
             /\ q \in DOMAIN io'.dir
             /\ io'.dir[q].owner = io.dir[q].owner
             /\ io.dir[q].written => io'.dir[q] = io.dir[q]
        /\ \A filename \in UploadNames \ {<<>>} :
             (upload_invoice(filename)
                /\ UploadExtension(filename) \notin supported_formats_list)
               => (io'.dir = io.dir /\ io'.tasks = io.tasks /\ io'.uploads = io.uploads)]_vars

\* Two uploads of a.jpg in flight at once beside an a.jpg that was there
\* before: three different files.
C26_Witness ==
  /\ io.op = "api"
  /\ <<"a", "jpg", 0>> \in DOMAIN io.dir /\ io.dir[<<"a", "jpg", 0>>].owner = 0
  /\ DOMAIN io.uploads = {1, 2}
  /\ io.uploads[1] = <<"a", "jpg", 1>> /\ io.uploads[2] = <<"a", "jpg", 2>>

\* C27: an event for a regular file with a supported extension leads to the
\* queueing step, which puts the path on the queue if the file still exists;
\* events for directories and unsupported names, and files that vanished,
\* enqueue nothing.
C27_EventsAreQueued ==
  [][io.op = "watch"
     => \A entry \in WatchEntries :
          /\ (on_created(entry, "observer") /\ IsInvoiceFile(entry))
               => entry \in io'.settling
          /\ (on_created(entry, "observer") /\ ~IsInvoiceFile(entry))
               => (io'.settling = io.settling /\ queue' = queue)
          /\ _queue_file_for_processing(entry)
               => queue' = IF entry \in intake THEN Append(queue, entry) ELSE queue]_vars

\* C28: the step of start_monitoring that starts a stopped service leaves on
\* the queue, exactly once each, the regular files of intake with a supported
\* extension, and nothing else.
C28_ExistingFilesQueuedOnce ==
  [][(~is_running /\ is_running')
     => \A entry \in WatchEntries :
          Occurrences(queue', entry) =
            IF /\ entry \in intake
               /\ entry # "archive"
               /\ get_file_extension(entry) \in supported_formats_list
            THEN 1 ELSE 0]_vars

\* The service has been started on a folder with both invoices, the text file
\* and the directory: the queue holds the two invoices.
C28_Witness ==
  /\ is_running
  /\ intake = WatchEntries
  /\ queue = <<"a.jpg", "b.jpg">>

\* C29: while the service runs, every supported file that is in intake
\* (with room for the calls of the drain task and of one sweep within the
\* bound on calls) eventually has a terminal result in the store; the drain
\* task need not take a step for it.
C29_SweepReachesEveryFile ==
  \A f \in TwoFiles :
    (is_running /\ f \in intake /\ Room(2 * Cardinality(TwoFiles)))
      ~> (\E fid \in processing_results :
            results[fid].original_filename = f /\ results[fid].status \in Terminal)

\* The drain task has not taken a.jpg from the queue, and the first sweep of
\* the periodic task has stored a success for it.
C29_Witness ==
  /\ is_running
  /\ queue = <<"a.jpg">>
  /\ Len(sweeps) = 1 /\ sweeps[1].loop = 1
  /\ \E fid \in processing_results :
       results[fid].original_filename = "a.jpg" /\ results[fid].status = "success"

\* C37: while the service runs at most one periodic task and at most one
\* drain task are alive, and none is alive while it is stopped.
C37_OneLoopEach ==
  LET alive == {l \in 1..Len(periodic) : periodic[l] # "exited"}
      draining == processing_task \in {"idle", "busy"}
  IN  /\ is_running => Cardinality(alive) <= 1
      /\ ~is_running => (alive = {} /\ ~draining)

\* C40: only the drain task takes from the queue, it takes the head, and it
\* takes it only when no call it started is in flight; at most one call of
\* the drain task is in flight at any time.
C40_DrainFifoOneInFlight ==
  [][/\ Cardinality({fid \in DOMAIN inflight' : inflight'[fid] = QueueOwner}) <= 1
     /\ Len(queue') < Len(queue)
          => /\ DrainTake
             /\ queue' = Tail(queue)
             /\ InFlight(QueueOwner) = {}
             /\ \E fid \in DOMAIN results' \ DOMAIN results :
                  results'[fid].original_filename = Head(queue)]_vars

\* The call on a.jpg, taken first, has ended, and the drain task now has
\* the call on b.jpg in flight.
C40_Witness ==
  /\ \E fid \in ResultsOf("a.jpg") : results[fid].status \in Terminal
  /\ \E fid \in InFlight(QueueOwner) : results[fid].original_filename = "b.jpg"

\* C31: when a sweep of the periodic task raises, the task does not end and
\* the service stays as it is: the task waits in its backoff and, if the
\* service is still running when the backoff is over, goes on to its next
\* sleep and sweep.
C31_PeriodicSurvivesError ==
  [][\A l \in 1..Len(periodic) :
       /\ PeriodicSweepRaises(l)
            => /\ periodic'[l] = "backoff"
               /\ UNCHANGED <<is_running, observer, file_handler, processing_task>>
       /\ (BackoffEnds(l) /\ is_running) => periodic'[l] = "sleep"
       /\ (periodic[l] = "backoff" /\ periodic'[l] = "exited") => ~is_running]_vars

\* The first sweep of the periodic task raised, and after the backoff the
\* task has started a sweep that has a call in flight.
C31_Witness ==
  /\ is_running
  /\ faults = 1
  /\ periodic = <<"sweep">>
  /\ DOMAIN results # {}
  /\ \A fid \in DOMAIN results : fid \in DOMAIN inflight

\* The copies of source file f in the output folder.
CopiesOf(dir, f) == {e \in dir : e[1] = Stem(f) /\ e[2] = Suffix(f)}

\* C32: a file leaves the intake folder only in a step that has put a new
\* copy of it into the output folder, and no output file goes away: no
\* source file is lost.
C32_CopyThenDelete ==
  [][/\ generated \subseteq generated'
     /\ \A f \in intake :
          f \in intake' \/ CopiesOf(generated', f) \ generated # {}]_vars

\* Two calls were in flight on a.jpg at once: one relocated the file, the
\* other then found it gone and failed; the copy is in the output folder.
C32_Witness ==
  /\ "a.jpg" \notin intake
  /\ CopiesOf(generated, "a.jpg") # {}
  /\ \E fid \in ResultsOf("a.jpg") : results[fid].status = "success"
  /\ \E fid \in ResultsOf("a.jpg") :
       /\ results[fid].status = "failed"
       /\ results[fid].error_message = "No such file or directory"
       /\ results[fid].processing_time = Elapsed(TRUE)

\* C33: for a result with status success the JSON artifact named by
\* processed_filename and a copy of the source are in the output folder,
\* invoice_data and processing_time are set and error_message is not; the
\* step that ends a call in success leaves its source out of intake.
C33_SuccessHasArtifacts ==
  [][\A fid \in DOMAIN results' :
       results'[fid].status = "success"
         => LET r == results'[fid]
            IN  /\ r.processed_filename \in generated'
                /\ r.processed_filename[1] = Stem(r.original_filename)
                /\ r.processed_filename[2] = "json"
                /\ CopiesOf(generated', r.original_filename) # {}
                /\ r.invoice_data
                /\ r.processing_time > 0
                /\ r.error_message = ""
                /\ Ends(fid) => r.original_filename \notin intake']_vars

\* a.jpg was processed with success twice (it was put into the folder again
\* in between); the two results name different artifacts.
C33_Witness ==
  \E fid1, fid2 \in ResultsOf("a.jpg") :
    /\ fid1 # fid2
    /\ results[fid1].status = "success" /\ results[fid2].status = "success"
    /\ results[fid1].processed_filename # results[fid2].processed_filename
    /\ "a.jpg" \notin intake

\* The files the call that ended with result r wrote to the output folder:
\* the JSON artifact and the copy, the artifact alone when the copy failed,
\* none when the call failed before.
WritesOf(r) ==
  IF r.status = "success" \/ r.error_message = "cannot remove source" THEN 2
  ELSE IF /\ r.error_message \in {"No such file or directory", "cannot copy source"}
          /\ r.processing_time = Elapsed(TRUE)
  THEN 1
  ELSE 0

\* C34: every file a call writes to the output folder is written to a path
\* that did not exist before: the folder grows by one file for each write,
\* and no file that was there goes away.
C34_NoOutputOverwritten ==
  [][\A fid \in DOMAIN results' :
       Ends(fid)
         => /\ generated \subseteq generated'
            /\ Cardinality(generated' \ generated) = WritesOf(results'[fid])]_vars

\* Two calls on files of the same stem have each written an artifact and a
\* copy: the later ones carry the counter suffix.
C34_Witness ==
  {<<"a", ext, k>> : ext \in {"json", "jpg"}, k \in 0..1} \subseteq generated

\* C35: the output folder holds as many JSON artifacts as calls have ended
\* in success.
C35_ArtifactsEqualSuccesses ==
  Cardinality({e \in generated : e[2] = "json"})
    = Cardinality({fid \in DOMAIN results : results[fid].status = "success"})

\* C39: POST /upload accepts a filename exactly when is_supported_format is
\* true for it.
C39_UploadCheckAgrees ==
  [][\A filename \in UploadNames :
       upload_invoice(filename)
         => ((UploadCheck(filename) = ReturnedOk) <=> UploadIsSupported(filename))]_vars

\* C38: no step starts process_single_file on a file that an upload has
\* created and not yet written.
C38_NoCallOnFileBeingWritten ==
  [][io.op = "upload" => \A f \in io.writing : ~StartsCallOn(f)]_vars

\* C36: no request to process a path removes a file that is outside the
\* intake folder.
C36_OutsideFilesStay ==
  [][io.op = "fs" => io.outside \subseteq io'.outside]_vars

====
